---- MODULE Spec2Model ----
(***************************************************************************)
(* Query telemetry of mongo/db/query/telemetry.cpp: the sampling gate, the *)
(* redacting key builder (shouldCollectTelemetry), the store manager with  *)
(* its pointer swap (getTelemetryStore / resetTelemetryStore) and the      *)
(* recording path (collectTelemetry).                                      *)
(***************************************************************************)
EXTENDS Integers, Sequences, FiniteSets, TLC

(* ------------------------------ bounds -------------------------------- *)
NumThreads == 2
MaxRate == 1
MaxResets == 1
MaxCalls == 3
kNumPartitions == 2

Threads == 1..NumThreads
NoThread == 0

(* ------------------------------ strings ------------------------------- *)
(* StringData is a character sequence; the strings the model uses, spelled  *)
(* out so that startsWith / endsWith compare characters.                    *)
Chars(s) ==
    CASE s = "a" -> <<"a">>
      [] s = "b" -> <<"b">>
      [] s = "abc" -> <<"a", "b", "c">>
      [] s = "c" -> <<"c">>
      [] s = "__safeContent__" ->
            <<"_", "_", "s", "a", "f", "e", "C", "o", "n", "t", "e", "n", "t", "_", "_">>
      [] s = "$__safeContent__" ->
            <<"$", "_", "_", "s", "a", "f", "e", "C", "o", "n", "t", "e", "n", "t", "_", "_">>
      [] s = "$_internalFle" ->
            <<"$", "_", "i", "n", "t", "e", "r", "n", "a", "l", "F", "l", "e">>
      [] s = "$_internalFleEq" ->
            <<"$", "_", "i", "n", "t", "e", "r", "n", "a", "l", "F", "l", "e", "E", "q">>
      [] s = "$_internal" ->
            <<"$", "_", "i", "n", "t", "e", "r", "n", "a", "l">>
      [] s = "enxcol_." -> <<"e", "n", "x", "c", "o", "l", "_", ".">>
      [] s = "enxcol_.c.esc" ->
            <<"e", "n", "x", "c", "o", "l", "_", ".", "c", ".", "e", "s", "c">>
      [] s = ".esc" -> <<".", "e", "s", "c">>
      [] s = ".ecc" -> <<".", "e", "c", "c">>
      [] s = ".ecoc" -> <<".", "e", "c", "o", "c">>
      [] OTHER -> <<s>>

startsWith(s, prefix) ==
    LET cs == Chars(s)
        cp == Chars(prefix)
    IN  Len(cs) >= Len(cp) /\ SubSeq(cs, 1, Len(cp)) = cp

endsWith(s, suffix) ==
    LET cs == Chars(s)
        cp == Chars(suffix)
    IN  Len(cs) >= Len(cp) /\ SubSeq(cs, Len(cs) - Len(cp) + 1, Len(cs)) = cp

(* ------------------------------- BSON --------------------------------- *)
(* A BSONObj is a sequence of elements; every element carries all fields   *)
(* so that elements of different types stay comparable.                    *)
Elem(name, type, str, num, obj, subtype, bin) ==
    [name |-> name, type |-> type, str |-> str, num |-> num, obj |-> obj,
     subtype |-> subtype, bin |-> bin]

ObjElem(name, obj) == Elem(name, "Object", "", 0, obj, "", <<>>)
ArrElem(name, obj) == Elem(name, "Array", "", 0, obj, "", <<>>)
StrElem(name, str) == Elem(name, "String", str, 0, <<>>, "", <<>>)
IntElem(name, num) == Elem(name, "NumberInt", "", num, <<>>, "", <<>>)
BinElem(name, subtype, bin) == Elem(name, "BinData", "", 0, <<>>, subtype, bin)

isABSONObj(e) == e.type \in {"Object", "Array"}

(* EncryptedBinDataType::kDeterministic *)
kDeterministic == 1
kRandom == 2

(* --------------------------- redaction guard -------------------------- *)
(* throwIfEncounteringFLEPayload: TRUE when the uassert fires, that is     *)
(* when its condition is false.                                            *)
throwIfEncounteringFLEPayload(e) ==
    IF e.type = "Object"
    THEN ~(e.name = "__safeContent__" \/ startsWith(e.name, "$_internalFle"))
    ELSE IF e.type = "String"
    THEN ~(e.str = "$__safeContent__")
    ELSE IF e.type = "BinData" /\ e.subtype = "Encrypt"
    THEN ~(Len(e.bin) > 1 /\ e.bin[2] # kDeterministic)
    ELSE FALSE

(* BSONObj::redact(false): visits every element, calls the guard on it,    *)
(* keeps the field names and the nesting, and replaces every leaf value by *)
(* the placeholder.  The result is the redacted object, or threw.          *)
RECURSIVE redact(_)
redact(obj) ==
    IF obj = <<>>
    THEN [threw |-> FALSE, obj |-> <<>>]
    ELSE LET e == Head(obj)
             rest == redact(Tail(obj))
             sub == IF isABSONObj(e) THEN redact(e.obj)
                    ELSE [threw |-> FALSE, obj |-> <<>>]
             red == IF isABSONObj(e)
                    THEN Elem(e.name, e.type, "", 0, sub.obj, "", <<>>)
                    ELSE StrElem(e.name, "###")
         IN  IF throwIfEncounteringFLEPayload(e) \/ sub.threw \/ rest.threw
             THEN [threw |-> TRUE, obj |-> <<>>]
             ELSE [threw |-> FALSE, obj |-> <<red>> \o rest.obj]

(* ----------------------------- sampling gate -------------------------- *)
isTelemetryEnabled(rate) == rate > 0

(* RateLimiting::handleRequestSlidingWindow: check and increment of the    *)
(* window counter in one step.                                             *)
handleRequestSlidingWindow(rate, count) ==
    IF count < rate
    THEN [granted |-> TRUE, count |-> count + 1]
    ELSE [granted |-> FALSE, count |-> count]

(* variant: the answer of the rate limiter is dropped *)
shouldCollectIgnoringDenial(rate, count) ==
    IF ~isTelemetryEnabled(rate)
    THEN [ok |-> FALSE, count |-> count, consulted |-> FALSE]
    ELSE LET h == handleRequestSlidingWindow(rate, count)
         IN  [ok |-> TRUE, count |-> h.count, consulted |-> TRUE]

shouldCollect(rate, count) ==
    IF ~isTelemetryEnabled(rate)
    THEN [ok |-> FALSE, count |-> count, consulted |-> FALSE]
    ELSE LET h == handleRequestSlidingWindow(rate, count)
         IN  [ok |-> h.granted, count |-> h.count, consulted |-> TRUE]

(* ------------------------------ requests ------------------------------ *)
NamespaceString(db, coll) == [db |-> db, coll |-> coll]

nsToString(ns) ==
    CASE ns = NamespaceString("test", "c") -> "test.c"
      [] ns = NamespaceString("test", "enxcol_.c.esc") -> "test.enxcol_.c.esc"
      [] OTHER -> "?"

isFLE2StateCollection(ns) ==
    /\ startsWith(ns.coll, "enxcol_.")
    /\ (endsWith(ns.coll, ".esc") \/ endsWith(ns.coll, ".ecc") \/ endsWith(ns.coll, ".ecoc"))

NoneObj == [some |-> FALSE, obj |-> <<>>]
SomeObj(obj) == [some |-> TRUE, obj |-> obj]

NoClientMetadata == [present |-> FALSE, applicationName |-> ""]
ClientMetadata(name) == [present |-> TRUE, applicationName |-> name]

(* boost::optional<BSONObj> plus what the call did to the rate limiter.    *)
(* uncaught: an exception other than EncounteredFLEPayloadWhileRedacting   *)
(* left the function.                                                      *)
Outcome(res, count, consulted, uncaught) ==
    [res |-> res, count |-> count, consulted |-> consulted, uncaught |-> uncaught]

(* the stages of the pipeline, each built by subobjStart("stage")          *)
RECURSIVE redactPipeline(_)
redactPipeline(pipeline) ==
    IF pipeline = <<>>
    THEN [threw |-> FALSE, uncaught |-> FALSE, obj |-> <<>>]
    ELSE LET el == Head(Head(pipeline))
             rest == redactPipeline(Tail(pipeline))
             r == IF isABSONObj(el) THEN redact(el.obj)
                  ELSE [threw |-> FALSE, obj |-> <<>>]
         IN  IF ~isABSONObj(el)
             THEN [threw |-> FALSE, uncaught |-> TRUE, obj |-> <<>>]
             ELSE IF r.threw
             THEN [threw |-> TRUE, uncaught |-> FALSE, obj |-> <<>>]
             ELSE IF rest.threw \/ rest.uncaught
             THEN rest
             ELSE [threw |-> FALSE, uncaught |-> FALSE,
                   obj |-> <<ObjElem("stage", <<ObjElem(el.name, r.obj)>>)>> \o rest.obj]

keyTail(ns, readConcern, client) ==
    <<StrElem("namespace", nsToString(ns))>>
    \o (IF readConcern.some THEN <<ObjElem("readConcern", readConcern.obj)>> ELSE <<>>)
    \o (IF client.present THEN <<StrElem("applicationName", client.applicationName)>>
        ELSE <<>>)

(* variant: the check of the namespace left out *)
shouldCollectTelemetryAggregateAnyNs(request, rate, count) ==
    IF request.encryptionInformation
    THEN Outcome(NoneObj, count, FALSE, FALSE)
    ELSE LET sc == shouldCollect(rate, count)
             p == redactPipeline(request.pipeline)
         IN  IF ~sc.ok
             THEN Outcome(NoneObj, sc.count, sc.consulted, FALSE)
             ELSE IF p.uncaught
             THEN Outcome(NoneObj, sc.count, sc.consulted, TRUE)
             ELSE IF p.threw
             THEN Outcome(NoneObj, sc.count, sc.consulted, FALSE)
             ELSE Outcome(SomeObj(<<ArrElem("pipeline", p.obj)>>
                                  \o keyTail(request.ns, request.readConcern, request.client)),
                          sc.count, sc.consulted, FALSE)

shouldCollectTelemetryAggregate(request, rate, count) ==
    IF request.encryptionInformation
    THEN Outcome(NoneObj, count, FALSE, FALSE)
    ELSE IF isFLE2StateCollection(request.ns)
    THEN Outcome(NoneObj, count, FALSE, FALSE)
    ELSE LET sc == shouldCollect(rate, count)
             p == redactPipeline(request.pipeline)
         IN  IF ~sc.ok
             THEN Outcome(NoneObj, sc.count, sc.consulted, FALSE)
             ELSE IF p.uncaught
             THEN Outcome(NoneObj, sc.count, sc.consulted, TRUE)
             ELSE IF p.threw
             THEN Outcome(NoneObj, sc.count, sc.consulted, FALSE)
             ELSE Outcome(SomeObj(<<ArrElem("pipeline", p.obj)>>
                                  \o keyTail(request.ns, request.readConcern, request.client)),
                          sc.count, sc.consulted, FALSE)

(* FindCommandRequest::toBSON: the command element, then the fields set.   *)
findToBSON(request) ==
    <<StrElem("find", request.ns.coll)>> \o request.fields
    \o (IF request.readConcern.some THEN <<ObjElem("readConcern", request.readConcern.obj)>>
        ELSE <<>>)

RECURSIVE redactFindEntries(_)
redactFindEntries(findBson) ==
    IF findBson = <<>>
    THEN [threw |-> FALSE, obj |-> <<>>]
    ELSE LET findEntry == Head(findBson)
             rest == redactFindEntries(Tail(findBson))
             r == IF isABSONObj(findEntry) THEN redact(findEntry.obj)
                  ELSE [threw |-> FALSE, obj |-> <<>>]
             out == IF isABSONObj(findEntry)
                    THEN ObjElem(findEntry.name, r.obj)
                    ELSE StrElem(findEntry.name, "###")
         IN  IF r.threw \/ rest.threw
             THEN [threw |-> TRUE, obj |-> <<>>]
             ELSE [threw |-> FALSE, obj |-> <<out>> \o rest.obj]

(* variant: the rate limiter asked before the request is looked at *)
shouldCollectTelemetryFindGateFirst(request, rate, count) ==
    LET sc == shouldCollect(rate, count)
        f == redactFindEntries(findToBSON(request))
    IN  IF ~sc.ok
        THEN Outcome(NoneObj, sc.count, sc.consulted, FALSE)
        ELSE IF request.encryptionInformation \/ isFLE2StateCollection(request.ns)
        THEN Outcome(NoneObj, sc.count, sc.consulted, FALSE)
        ELSE IF f.threw
        THEN Outcome(NoneObj, sc.count, sc.consulted, FALSE)
        ELSE Outcome(SomeObj(<<ObjElem("find", f.obj)>>
                             \o keyTail(request.ns, request.readConcern, request.client)),
                     sc.count, sc.consulted, FALSE)

(* The entries are appended to telemetryKey while findBuilder is open on   *)
(* the same buffer, so findBuilder.done() closes the "find" sub-object     *)
(* around them.                                                            *)
shouldCollectTelemetryFind(request, rate, count) ==
    IF request.encryptionInformation
    THEN Outcome(NoneObj, count, FALSE, FALSE)
    ELSE IF isFLE2StateCollection(request.ns)
    THEN Outcome(NoneObj, count, FALSE, FALSE)
    ELSE LET sc == shouldCollect(rate, count)
             f == redactFindEntries(findToBSON(request))
         IN  IF ~sc.ok
             THEN Outcome(NoneObj, sc.count, sc.consulted, FALSE)
             ELSE IF f.threw
             THEN Outcome(NoneObj, sc.count, sc.consulted, FALSE)
             ELSE Outcome(SomeObj(<<ObjElem("find", f.obj)>>
                                  \o keyTail(request.ns, request.readConcern, request.client)),
                          sc.count, sc.consulted, FALSE)

(* variant: && in place of || *)
shouldCollectTelemetryKeyAnd(telemetryKey, rate, count) ==
    IF telemetryKey # <<>>
    THEN Outcome(SomeObj(telemetryKey), count, FALSE, FALSE)
    ELSE LET sc == shouldCollect(rate, count)
         IN  IF ~sc.ok
             THEN Outcome(NoneObj, sc.count, sc.consulted, FALSE)
             ELSE Outcome(SomeObj(telemetryKey), sc.count, sc.consulted, FALSE)

shouldCollectTelemetryKey(telemetryKey, rate, count) ==
    IF telemetryKey = <<>>
    THEN Outcome(NoneObj, count, FALSE, FALSE)
    ELSE LET sc == shouldCollect(rate, count)
         IN  IF ~sc.ok
             THEN Outcome(NoneObj, sc.count, sc.consulted, FALSE)
             ELSE Outcome(SomeObj(telemetryKey), sc.count, sc.consulted, FALSE)

(* ------------------------------ the store ----------------------------- *)
(* sizes are counted in entries: one entry costs EntryCost                 *)
EntryCost == 1
GB == 4
TotalSystemMemory == 12
RequestedSizes == {1, 5}

Min(a, b) == IF a < b THEN a ELSE b
Max(a, b) == IF a > b THEN a ELSE b

(* memory_util::capMemorySize(requested, maximumSizeGB, percentTotalSystemMemory) *)
capMemorySize(requestedSize, maximumSizeGB, percentTotalSystemMemory) ==
    Min(requestedSize,
        Min(maximumSizeGB * GB, (percentTotalSystemMemory * TotalSystemMemory) \div 100))

(* AggregatedMetric *)
ZeroAggregate == [count |-> 0, sum |-> 0, min |-> 0, max |-> 0]

aggregate(m, val) ==
    [count |-> m.count + 1,
     sum |-> m.sum + val,
     min |-> IF m.count = 0 THEN val ELSE Min(m.min, val),
     max |-> IF m.count = 0 THEN val ELSE Max(m.max, val)]

(* TelemetryMetrics *)
NewTelemetryMetrics ==
    [execCount |-> 0, lastExecutionMicros |-> 0,
     queryOptMicros |-> ZeroAggregate, queryExecMicros |-> ZeroAggregate,
     docsReturned |-> ZeroAggregate, docsScanned |-> ZeroAggregate,
     keysScanned |-> ZeroAggregate]

(* OpDebug: the fields collectTelemetry reads; docsExamined / keysExamined *)
(* are optional (NoValue when unset).                                      *)
NoValue == -1
value_or(v, d) == IF v = NoValue THEN d ELSE v

OpDebugs ==
    { [planningTime |-> 1, nreturned |-> 2, docsExamined |-> 3, keysExamined |-> NoValue,
       executionTime |-> 2],
      [planningTime |-> 2, nreturned |-> 0, docsExamined |-> NoValue, keysExamined |-> 1,
       executionTime |-> 1] }

NoOpDebug ==
    [planningTime |-> 0, nreturned |-> 0, docsExamined |-> NoValue, keysExamined |-> NoValue,
     executionTime |-> 0]

(* history of an entry, kept beside it: the calls completed on it since it *)
(* was created, how many were executions, whether all of them were         *)
(* executions with the statistics first, the statistics of the latest.     *)
NoHistory ==
    [calls |-> 0, execCalls |-> 0, uniform |-> TRUE, first |-> NoOpDebug, last |-> NoOpDebug]

record(h, opDebug, isExec) ==
    [calls |-> h.calls + 1,
     execCalls |-> h.execCalls + (IF isExec THEN 1 ELSE 0),
     uniform |-> h.uniform /\ isExec /\ (h.calls = 0 \/ h.first = opDebug),
     first |-> IF h.calls = 0 THEN opDebug ELSE h.first,
     last |-> opDebug]

Entry(key, metrics, history) == [key |-> key, metrics |-> metrics, history |-> history]

(* TelemetryStore(size, numPartitions): every partition has its lock and   *)
(* its entries in recency order, most recent first.                        *)
NewPartition == [lock |-> NoThread, entries |-> <<>>]

TelemetryStore(size, numPartitions) ==
    [size |-> size, numPartitions |-> numPartitions,
     parts |-> [p \in 1..numPartitions |-> NewPartition]]

(* TelemetryPartitioner: hash of the key modulo the partition count        *)
RECURSIVE hashObj(_)
hashObj(obj) ==
    IF obj = <<>> THEN 1
    ELSE LET e == Head(obj)
         IN  (Len(Chars(e.name)) + Len(Chars(e.str)) + 3 * hashObj(e.obj)
              + 7 * hashObj(Tail(obj))) % 1009

partitionOf(store, key) == (hashObj(key) % store.numPartitions) + 1

partitionBudget(store) == store.size \div store.numPartitions

indexOf(entries, key) ==
    IF \E i \in 1..Len(entries) : entries[i].key = key
    THEN CHOOSE i \in 1..Len(entries) : entries[i].key = key
    ELSE 0

without(entries, i) ==
    [j \in 1..(Len(entries) - 1) |-> IF j < i THEN entries[j] ELSE entries[j + 1]]

(* Partition::get: a hit moves the entry to the front                      *)
promote(entries, key) ==
    LET i == indexOf(entries, key)
    IN  IF i = 0 THEN entries ELSE <<entries[i]>> \o without(entries, i)

(* eviction of the least recently used entries down to the budget          *)
RECURSIVE evict(_, _)
evict(entries, budget) ==
    IF Len(entries) * EntryCost > budget
    THEN evict(SubSeq(entries, 1, Len(entries) - 1), budget)
    ELSE entries

(* TelemetryStore::put(key, metrics, partitionLock)                        *)
put(entries, key, metrics, budget) ==
    LET i == indexOf(entries, key)
        h == IF i = 0 THEN NoHistory ELSE entries[i].history
        others == IF i = 0 THEN entries ELSE without(entries, i)
    IN  evict(<<Entry(key, metrics, h)>> \o others, budget)

(* ------------------------- the requests drawn -------------------------- *)
Request(kind, ns, enc, pipeline, fields, readConcern, client) ==
    [kind |-> kind, ns |-> ns, encryptionInformation |-> enc, pipeline |-> pipeline,
     fields |-> fields, readConcern |-> readConcern, client |-> client]

UserNs == NamespaceString("test", "c")
StateNs == NamespaceString("test", "enxcol_.c.esc")

Stage(name, arg) == <<ObjElem(name, arg)>>

Pipelines ==
    { <<Stage("$match", <<IntElem("a", 1)>>)>>,
      <<Stage("$match", <<IntElem("a", 2)>>)>>,
      <<Stage("$match", <<IntElem("b", 1)>>)>>,
      <<Stage("$sort", <<IntElem("a", 1)>>)>>,
      <<Stage("$match", <<IntElem("a", 1)>>), Stage("$sort", <<IntElem("a", 1)>>)>>,
      <<Stage("$match", <<ObjElem("__safeContent__", <<IntElem("a", 1)>>)>>)>>,
      <<Stage("$match", <<ObjElem("a", <<IntElem("b", 1)>>)>>)>>,
      <<Stage("$match", <<StrElem("a", "abc")>>)>>,
      <<Stage("$match", <<BinElem("a", "Encrypt", <<0, kRandom>>)>>)>>,
      <<<<IntElem("$limit", 1)>>>> }

FindFields ==
    { <<ObjElem("filter", <<IntElem("a", 1)>>)>>,
      <<ObjElem("filter", <<IntElem("a", 2)>>)>>,
      <<ObjElem("filter", <<IntElem("b", 1)>>)>>,
      <<ObjElem("filter", <<IntElem("a", 1)>>), IntElem("limit", 1)>>,
      <<ObjElem("filter", <<IntElem("a", 1)>>), IntElem("limit", 2)>>,
      <<ObjElem("filter", <<ObjElem("$_internalFleEq", <<IntElem("a", 1)>>)>>)>>,
      <<ObjElem("filter", <<StrElem("a", "$__safeContent__")>>)>>,
      <<ObjElem("filter", <<BinElem("a", "Encrypt", <<0, kDeterministic>>)>>)>> }

Contexts ==
    { <<NoneObj, NoClientMetadata>>,
      <<SomeObj(<<IntElem("afterClusterTime", 1)>>), ClientMetadata("shell")>>,
      <<SomeObj(<<IntElem("afterClusterTime", 2)>>), ClientMetadata("shell")>> }

AllRequests ==
    { Request("aggregate", ns, enc, p, <<>>, c[1], c[2]) :
        ns \in {UserNs, StateNs}, enc \in BOOLEAN, p \in Pipelines, c \in Contexts }
    \cup
    { Request("find", ns, enc, <<>>, f, c[1], c[2]) :
        ns \in {UserNs, StateNs}, enc \in BOOLEAN, f \in FindFields, c \in Contexts }

(* the requests the worker threads issue *)
WorkerRequests ==
    { Request("aggregate", UserNs, FALSE, <<Stage("$match", <<IntElem("a", 1)>>)>>, <<>>,
              NoneObj, NoClientMetadata),
      Request("aggregate", UserNs, FALSE, <<Stage("$sort", <<IntElem("a", 1)>>)>>, <<>>,
              NoneObj, NoClientMetadata),
      Request("find", UserNs, FALSE, <<>>, <<ObjElem("filter", <<IntElem("a", 1)>>)>>,
              NoneObj, NoClientMetadata),
      Request("find", UserNs, TRUE, <<>>, <<ObjElem("filter", <<IntElem("a", 1)>>)>>,
              NoneObj, NoClientMetadata) }

(* the keys handed to the overload that takes a key: an empty one and one *)
(* built for an earlier find                                              *)
StoredKeys ==
    { <<>>,
      <<ObjElem("find", <<StrElem("find", "###"), ObjElem("filter", <<StrElem("a", "###")>>)>>),
        StrElem("namespace", "test.c")>> }

shouldCollectTelemetry(request, rate, count) ==
    IF request.kind = "aggregate"
    THEN shouldCollectTelemetryAggregate(request, rate, count)
    ELSE shouldCollectTelemetryFind(request, rate, count)

(* ------------------------------- state -------------------------------- *)
VARIABLES
    samplingRate,     \* RateLimiting: the configured rate
    queryTelemetryStoreSize,  \* the server parameter, as the size it asks for
    windowCount,      \* RateLimiting: admissions granted in the current window
    telemetryStore,   \* TelemetryStoreManager::_telemetryStore, the live store
    stores,           \* every TelemetryStore instance created so far
    returned,         \* the instances resetTelemetryStore handed to its caller
    held,             \* the hold each thread has on _instanceMutex
    xWaiting,         \* threads waiting for the exclusive hold
    pc,               \* where each thread is
    loc,              \* the locals of each thread's call
    calls,            \* calls into the store manager started
    input,            \* requests of the key builder runs
    output            \* their outcomes

vars == <<samplingRate, queryTelemetryStoreSize, windowCount, telemetryStore, stores, returned, held, xWaiting,
          pc, loc, calls, input, output>>

NoStore == 0

NoOutcome == Outcome(NoneObj, 0, FALSE, FALSE)

InitLoc ==
    [out |-> NoOutcome, key |-> <<>>, opDebug |-> NoOpDebug,
     isExec |-> FALSE, op |-> "none", store |-> NoStore, part |-> 0, cnt |-> 0,
     ret |-> NoStore, idx |-> 0, size |-> 0, threw |-> FALSE, evicted |-> FALSE,
     memSize |-> 0]

(* telemetryStoreManagerRegisterer *)
Init ==
    /\ samplingRate \in 0..MaxRate
    /\ windowCount = 0
    /\ queryTelemetryStoreSize \in RequestedSizes
    /\ stores = <<TelemetryStore(capMemorySize(queryTelemetryStoreSize, 1, 25),
                                 kNumPartitions)>>
    /\ telemetryStore = 1
    /\ returned = {}
    /\ held = [t \in Threads |-> "none"]
    /\ xWaiting = {}
    /\ pc = [t \in Threads |-> "idle"]
    /\ loc = [t \in Threads |-> InitLoc]
    /\ calls = 0
    /\ input = <<>>
    /\ output = <<>>

keyVars == <<input, output>>
gateVars == <<samplingRate, windowCount>>
paramVars == <<queryTelemetryStoreSize>>
managerVars == <<telemetryStore, stores, returned>>
lockVars == <<held, xWaiting>>

Goto(t, label) == pc' = [pc EXCEPT ![t] = label]
SetLoc(t, l) == loc' = [loc EXCEPT ![t] = l]

(* ----------------------- shouldCollectTelemetry ------------------------ *)
CallShouldCollectTelemetry(t, request) ==
    /\ pc[t] = "idle"
    /\ LET out == shouldCollectTelemetry(request, samplingRate, windowCount)
       IN  /\ windowCount' = out.count
           /\ SetLoc(t, [InitLoc EXCEPT !.out = out])
    /\ Goto(t, "sct_done")
    /\ UNCHANGED <<samplingRate, managerVars, lockVars, calls, keyVars, paramVars>>

(* the overload taking a key *)
CallShouldCollectTelemetryKey(t, telemetryKey) ==
    /\ pc[t] = "idle"
    /\ LET out == shouldCollectTelemetryKey(telemetryKey, samplingRate, windowCount)
       IN  /\ windowCount' = out.count
           /\ SetLoc(t, [InitLoc EXCEPT !.out = out])
    /\ Goto(t, "sct_done")
    /\ UNCHANGED <<samplingRate, managerVars, lockVars, calls, keyVars, paramVars>>

ReturnToIdle(t) ==
    /\ pc[t] = "sct_done"
    /\ SetLoc(t, InitLoc)
    /\ Goto(t, "idle")
    /\ UNCHANGED <<gateVars, managerVars, lockVars, calls, keyVars, paramVars>>

(* the window of the rate limiter rolls over *)
WindowRollover ==
    /\ windowCount > 0
    /\ windowCount' = 0
    /\ UNCHANGED <<samplingRate, managerVars, lockVars, pc, loc, calls, keyVars, paramVars>>

(* ------------------------- the instance lock --------------------------- *)
(* Lock::SharedLock / Lock::ExclusiveLock on _instanceMutex                *)
canGrantShared(t) == (\A u \in Threads : held[u] # "X") /\ xWaiting = {}
canGrantExclusive(t) == \A u \in Threads : held[u] = "none"

(* --------------------------- getTelemetryStore ------------------------- *)
(* std::make_pair(&*_telemetryStore, Lock::SharedLock{...}): the two       *)
(* arguments are evaluated in an order the compiler picks.                 *)
afterGet(op) ==
    CASE op = "collect" -> "ct_lookup"
      [] op = "update" -> "uc_reset"
      [] OTHER -> "rd_hold"

ReadStorePointer(t) ==
    /\ pc[t] \in {"gs_start", "gs_lock"}
    /\ SetLoc(t, [loc[t] EXCEPT !.store = telemetryStore])
    /\ Goto(t, IF pc[t] = "gs_start" THEN "gs_ptr" ELSE afterGet(loc[t].op))
    /\ UNCHANGED <<gateVars, managerVars, lockVars, calls, keyVars, paramVars>>

AcquireSharedLock(t) ==
    /\ pc[t] \in {"gs_start", "gs_ptr"}
    /\ canGrantShared(t)
    /\ held' = [held EXCEPT ![t] = "S"]
    /\ Goto(t, IF pc[t] = "gs_start" THEN "gs_lock" ELSE afterGet(loc[t].op))
    /\ UNCHANGED <<gateVars, managerVars, xWaiting, loc, calls, keyVars, paramVars>>

(* variant: the hold outlives the call *)
ReleaseSharedLockKeeping(t) ==
    /\ pc[t] \in {"ct_relshared", "uc_rel", "rd_hold"}
    /\ SetLoc(t, InitLoc)
    /\ Goto(t, "idle")
    /\ UNCHANGED <<gateVars, managerVars, lockVars, calls, keyVars, paramVars>>

ReleaseSharedLock(t) ==
    /\ pc[t] \in {"ct_relshared", "uc_rel", "rd_hold"}
    /\ held' = [held EXCEPT ![t] = "none"]
    /\ SetLoc(t, InitLoc)
    /\ Goto(t, "idle")
    /\ UNCHANGED <<gateVars, managerVars, xWaiting, calls, keyVars, paramVars>>

(* getTelemetryStoreForRead called by a reader of the store *)
GetTelemetryStoreForRead(t) ==
    /\ pc[t] = "idle"
    /\ calls < MaxCalls
    /\ calls' = calls + 1
    /\ SetLoc(t, [InitLoc EXCEPT !.op = "read"])
    /\ Goto(t, "gs_start")
    /\ UNCHANGED <<gateVars, managerVars, lockVars, keyVars, paramVars>>

(* -------------------------- resetTelemetryStore ------------------------ *)
ResetRequest(t) ==
    /\ pc[t] = "idle"
    /\ Len(stores) <= MaxResets
    /\ calls < MaxCalls
    /\ calls' = calls + 1
    /\ xWaiting' = xWaiting \cup {t}
    /\ SetLoc(t, [InitLoc EXCEPT !.op = "reset"])
    /\ Goto(t, "rs_wait")
    /\ UNCHANGED <<gateVars, managerVars, held, keyVars, paramVars>>

(* variant: the hold is taken in shared mode *)
ResetAcquireShared(t) ==
    /\ pc[t] = "rs_wait"
    /\ \A u \in Threads : held[u] # "X"
    /\ held' = [held EXCEPT ![t] = "S"]
    /\ xWaiting' = xWaiting \ {t}
    /\ Goto(t, "rs_swap")
    /\ UNCHANGED <<gateVars, managerVars, loc, calls, keyVars, paramVars>>

ResetAcquire(t) ==
    /\ pc[t] = "rs_wait"
    /\ canGrantExclusive(t)
    /\ held' = [held EXCEPT ![t] = "X"]
    /\ xWaiting' = xWaiting \ {t}
    /\ Goto(t, "rs_swap")
    /\ UNCHANGED <<gateVars, managerVars, loc, calls, keyVars, paramVars>>

(* variant: the arguments of the new store in the wrong order *)
ResetSwapArgsSwapped(t) ==
    /\ pc[t] = "rs_swap"
    /\ LET newStore == TelemetryStore(stores[telemetryStore].numPartitions,
                                      stores[telemetryStore].size)
       IN  /\ stores' = Append(stores, newStore)
           /\ telemetryStore' = Len(stores) + 1
           /\ SetLoc(t, [loc[t] EXCEPT !.ret = telemetryStore])
    /\ Goto(t, "rs_ret")
    /\ UNCHANGED <<gateVars, returned, lockVars, calls, keyVars, paramVars>>

(* variant: the old store is cleared when it is swapped out *)
ResetSwapClearing(t) ==
    /\ pc[t] = "rs_swap"
    /\ LET old == stores[telemetryStore]
           newStore == TelemetryStore(old.size, old.numPartitions)
       IN  /\ stores' = Append([stores EXCEPT ![telemetryStore] = newStore], newStore)
           /\ telemetryStore' = Len(stores) + 1
           /\ SetLoc(t, [loc[t] EXCEPT !.ret = telemetryStore])
    /\ Goto(t, "rs_ret")
    /\ UNCHANGED <<gateVars, returned, lockVars, calls, keyVars, paramVars>>

ResetSwap(t) ==
    /\ pc[t] = "rs_swap"
    /\ LET newStore == TelemetryStore(stores[telemetryStore].size,
                                      stores[telemetryStore].numPartitions)
       IN  /\ stores' = Append(stores, newStore)
           /\ telemetryStore' = Len(stores) + 1
           /\ SetLoc(t, [loc[t] EXCEPT !.ret = telemetryStore])
    /\ Goto(t, "rs_ret")
    /\ UNCHANGED <<gateVars, returned, lockVars, calls, keyVars, paramVars>>

ResetReturn(t) ==
    /\ pc[t] = "rs_ret"
    /\ held' = [held EXCEPT ![t] = "none"]
    /\ returned' = returned \cup {loc[t].ret}
    /\ SetLoc(t, InitLoc)
    /\ Goto(t, "idle")
    /\ UNCHANGED <<gateVars, telemetryStore, stores, xWaiting, calls, keyVars, paramVars>>

(* ---------------------------- collectTelemetry ------------------------- *)
SetEntries(s, p, entries) == stores' = [stores EXCEPT ![s].parts[p].entries = entries]

CollectTelemetry(t, opDebug, isExec) ==
    /\ pc[t] = "sct_done"
    /\ loc[t].out.res.some
    /\ calls < MaxCalls
    /\ calls' = calls + 1
    /\ SetLoc(t, [InitLoc EXCEPT !.key = loc[t].out.res.obj, !.opDebug = opDebug,
                                 !.isExec = isExec, !.op = "collect"])
    /\ Goto(t, "gs_start")
    /\ UNCHANGED <<gateVars, managerVars, lockVars, keyVars, paramVars>>

(* variant: the lookup does not wait for the partition lock *)
GetWithoutPartitionLock(t) ==
    /\ pc[t] = "ct_lookup"
    /\ LET s == loc[t].store
           p == partitionOf(stores[s], loc[t].key)
           part == stores[s].parts[p]
       IN  /\ stores' = [stores EXCEPT ![s].parts[p] =
                            [lock |-> t, entries |-> promote(part.entries, loc[t].key)]]
           /\ SetLoc(t, [loc[t] EXCEPT !.part = p])
           /\ Goto(t, IF indexOf(part.entries, loc[t].key) # 0 THEN "ct_read" ELSE "ct_put")
    /\ UNCHANGED <<gateVars, telemetryStore, returned, lockVars, calls, keyVars, paramVars>>

(* telemetryStore->getWithPartitionLock(key): takes the lock of the key's  *)
(* partition and looks the key up.                                         *)
GetWithPartitionLock(t) ==
    /\ pc[t] = "ct_lookup"
    /\ LET s == loc[t].store
           p == partitionOf(stores[s], loc[t].key)
           part == stores[s].parts[p]
       IN  /\ part.lock = NoThread
           /\ stores' = [stores EXCEPT ![s].parts[p] =
                            [lock |-> t, entries |-> promote(part.entries, loc[t].key)]]
           /\ SetLoc(t, [loc[t] EXCEPT !.part = p])
           /\ Goto(t, IF indexOf(part.entries, loc[t].key) # 0 THEN "ct_read" ELSE "ct_put")
    /\ UNCHANGED <<gateVars, telemetryStore, returned, lockVars, calls, keyVars, paramVars>>

(* variant: the put makes room in every partition of the store *)
PutNewMetricsEvictingEverywhere(t) ==
    /\ pc[t] = "ct_put"
    /\ LET s == loc[t].store
           p == loc[t].part
           before == stores[s].parts[p].entries
           entries == put(before, loc[t].key, NewTelemetryMetrics, partitionBudget(stores[s]))
           evicted == Len(entries) <= Len(before)
       IN  /\ stores' = [stores EXCEPT ![s].parts =
                            [q \in DOMAIN @ |->
                                IF q = p THEN [@[q] EXCEPT !.entries = entries]
                                ELSE IF evicted THEN [@[q] EXCEPT !.entries = <<>>]
                                ELSE @[q]]]
           /\ IF indexOf(entries, loc[t].key) # 0
              THEN /\ Goto(t, "ct_read")
                   /\ SetLoc(t, [loc[t] EXCEPT !.evicted = evicted])
              ELSE /\ Goto(t, "ct_relpart")
                   /\ SetLoc(t, [loc[t] EXCEPT !.threw = TRUE, !.evicted = evicted])
    /\ UNCHANGED <<gateVars, telemetryStore, returned, lockVars, calls, keyVars, paramVars>>

(* variant: the failed assertion leaves the call with the partition lock   *)
(* still taken                                                             *)
PutNewMetricsLeakingLock(t) ==
    /\ pc[t] = "ct_put"
    /\ LET s == loc[t].store
           p == loc[t].part
           before == stores[s].parts[p].entries
           entries == put(before, loc[t].key, NewTelemetryMetrics, partitionBudget(stores[s]))
           evicted == Len(entries) <= Len(before)
       IN  /\ SetEntries(s, p, entries)
           /\ IF indexOf(entries, loc[t].key) # 0
              THEN /\ Goto(t, "ct_read")
                   /\ SetLoc(t, [loc[t] EXCEPT !.evicted = evicted])
              ELSE /\ Goto(t, "ct_relshared")
                   /\ SetLoc(t, [loc[t] EXCEPT !.threw = TRUE, !.evicted = evicted])
    /\ UNCHANGED <<gateVars, telemetryStore, returned, lockVars, calls, keyVars, paramVars>>

(* the miss branch: put, get again, tassert 7064700.  A failed tassert     *)
(* throws: the call is left through the destructors of partitionLock and   *)
(* of the shared hold, and the metrics are not touched.  evicted: the put  *)
(* had to make room.                                                       *)
PutNewMetrics(t) ==
    /\ pc[t] = "ct_put"
    /\ LET s == loc[t].store
           p == loc[t].part
           before == stores[s].parts[p].entries
           entries == put(before, loc[t].key, NewTelemetryMetrics, partitionBudget(stores[s]))
           evicted == Len(entries) <= Len(before)
       IN  /\ SetEntries(s, p, entries)
           /\ IF indexOf(entries, loc[t].key) # 0
              THEN /\ Goto(t, "ct_read")
                   /\ SetLoc(t, [loc[t] EXCEPT !.evicted = evicted])
              ELSE /\ Goto(t, "ct_relpart")
                   /\ SetLoc(t, [loc[t] EXCEPT !.threw = TRUE, !.evicted = evicted])
    /\ UNCHANGED <<gateVars, telemetryStore, returned, lockVars, calls, keyVars, paramVars>>

(* metrics->execCount++ reads the counter ... *)
ReadExecCount(t) ==
    /\ pc[t] = "ct_read"
    /\ LET entries == stores[loc[t].store].parts[loc[t].part].entries
           i == indexOf(entries, loc[t].key)
       IN  SetLoc(t, [loc[t] EXCEPT !.cnt = IF i = 0 THEN 0 ELSE entries[i].metrics.execCount])
    /\ Goto(t, "ct_write")
    /\ UNCHANGED <<gateVars, managerVars, lockVars, calls, keyVars, paramVars>>

(* variant: documents scanned aggregated from the documents returned *)
updateMetricsCopyPaste(m, cnt, opDebug, isExec) ==
    LET m1 == IF isExec
              THEN [m EXCEPT !.execCount = cnt + 1,
                             !.queryOptMicros = aggregate(@, opDebug.planningTime)]
              ELSE m
    IN  [m1 EXCEPT !.docsReturned = aggregate(@, opDebug.nreturned),
                   !.docsScanned = aggregate(@, opDebug.nreturned),
                   !.keysScanned = aggregate(@, value_or(opDebug.keysExamined, 0)),
                   !.lastExecutionMicros = opDebug.executionTime,
                   !.queryExecMicros = aggregate(@, opDebug.executionTime)]

(* variant: the execution count incremented outside the isExec branch *)
updateMetricsCountingAlways(m, cnt, opDebug, isExec) ==
    LET m1 == IF isExec
              THEN [m EXCEPT !.queryOptMicros = aggregate(@, opDebug.planningTime)]
              ELSE m
    IN  [m1 EXCEPT !.execCount = cnt + 1,
                   !.docsReturned = aggregate(@, opDebug.nreturned),
                   !.docsScanned = aggregate(@, value_or(opDebug.docsExamined, 0)),
                   !.keysScanned = aggregate(@, value_or(opDebug.keysExamined, 0)),
                   !.lastExecutionMicros = opDebug.executionTime,
                   !.queryExecMicros = aggregate(@, opDebug.executionTime)]

(* variant: the last execution time set inside the isExec branch *)
updateMetricsLastOnExec(m, cnt, opDebug, isExec) ==
    LET m1 == IF isExec
              THEN [m EXCEPT !.execCount = cnt + 1,
                             !.queryOptMicros = aggregate(@, opDebug.planningTime),
                             !.lastExecutionMicros = opDebug.executionTime]
              ELSE m
    IN  [m1 EXCEPT !.docsReturned = aggregate(@, opDebug.nreturned),
                   !.docsScanned = aggregate(@, value_or(opDebug.docsExamined, 0)),
                   !.keysScanned = aggregate(@, value_or(opDebug.keysExamined, 0)),
                   !.queryExecMicros = aggregate(@, opDebug.executionTime)]

updateMetrics(m, cnt, opDebug, isExec) ==
    LET m1 == IF isExec
              THEN [m EXCEPT !.execCount = cnt + 1,
                             !.queryOptMicros = aggregate(@, opDebug.planningTime)]
              ELSE m
    IN  [m1 EXCEPT !.docsReturned = aggregate(@, opDebug.nreturned),
                   !.docsScanned = aggregate(@, value_or(opDebug.docsExamined, 0)),
                   !.keysScanned = aggregate(@, value_or(opDebug.keysExamined, 0)),
                   !.lastExecutionMicros = opDebug.executionTime,
                   !.queryExecMicros = aggregate(@, opDebug.executionTime)]

(* ... and writes it back, then updates the aggregates *)
WriteMetrics(t) ==
    /\ pc[t] = "ct_write"
    /\ LET s == loc[t].store
           p == loc[t].part
           entries == stores[s].parts[p].entries
           i == indexOf(entries, loc[t].key)
       IN  IF i = 0
           THEN UNCHANGED stores
           ELSE SetEntries(s, p,
                    [entries EXCEPT ![i] =
                        Entry(loc[t].key,
                              updateMetrics(entries[i].metrics, loc[t].cnt, loc[t].opDebug,
                                            loc[t].isExec),
                              record(entries[i].history, loc[t].opDebug, loc[t].isExec))])
    /\ Goto(t, "ct_relpart")
    /\ UNCHANGED <<gateVars, telemetryStore, returned, lockVars, loc, calls, keyVars, paramVars>>

(* the partition lock is released before the store's shared hold *)
ReleasePartitionLock(t) ==
    /\ pc[t] = "ct_relpart"
    /\ LET s == loc[t].store
           p == loc[t].part
       IN  stores' = [stores EXCEPT ![s].parts[p].lock =
                          IF @ = t THEN NoThread ELSE @]
    /\ Goto(t, "ct_relshared")
    /\ UNCHANGED <<gateVars, telemetryStore, returned, lockVars, loc, calls, keyVars, paramVars>>

(* ----------------------------- updateCacheSize ------------------------- *)
(* variant: the requested size handed to reset in place of the capped one *)
UpdateCacheSizeUncapped(t, memSize) ==
    /\ pc[t] = "idle"
    /\ calls < MaxCalls
    /\ calls' = calls + 1
    /\ queryTelemetryStoreSize' = memSize
    /\ SetLoc(t, [InitLoc EXCEPT !.memSize = memSize, !.size = memSize, !.op = "update",
                                 !.idx = 1])
    /\ Goto(t, "gs_start")
    /\ UNCHANGED <<gateVars, managerVars, lockVars, keyVars>>

(* called when the server parameter is set to memSize *)
UpdateCacheSize(t, memSize) ==
    /\ pc[t] = "idle"
    /\ calls < MaxCalls
    /\ calls' = calls + 1
    /\ queryTelemetryStoreSize' = memSize
    /\ SetLoc(t, [InitLoc EXCEPT !.memSize = memSize, !.size = capMemorySize(memSize, 1, 25),
                                 !.op = "update", !.idx = 1])
    /\ Goto(t, "gs_start")
    /\ UNCHANGED <<gateVars, managerVars, lockVars, keyVars>>

(* variant: the size is set and the entries are kept *)
StoreResetSizeOnly(t) ==
    /\ pc[t] = "uc_reset"
    /\ LET s == loc[t].store
           p == loc[t].idx
       IN  /\ stores[s].parts[p].lock = NoThread
           /\ stores' = [stores EXCEPT ![s].size = IF p = 1 THEN loc[t].size ELSE @]
           /\ IF p < stores[s].numPartitions
              THEN /\ SetLoc(t, [loc[t] EXCEPT !.idx = p + 1])
                   /\ UNCHANGED pc
              ELSE /\ Goto(t, "uc_rel")
                   /\ UNCHANGED loc
    /\ UNCHANGED <<gateVars, telemetryStore, returned, lockVars, calls, keyVars, paramVars>>

(* telemetryStore->reset(cappedSize): the new size is set once, with the   *)
(* first partition, and every partition is cleared under its lock          *)
StoreReset(t) ==
    /\ pc[t] = "uc_reset"
    /\ LET s == loc[t].store
           p == loc[t].idx
       IN  /\ stores[s].parts[p].lock = NoThread
           /\ stores' = [stores EXCEPT ![s].size = IF p = 1 THEN loc[t].size ELSE @,
                                       ![s].parts[p].entries = <<>>]
           /\ IF p < stores[s].numPartitions
              THEN /\ SetLoc(t, [loc[t] EXCEPT !.idx = p + 1])
                   /\ UNCHANGED pc
              ELSE /\ Goto(t, "uc_rel")
                   /\ UNCHANGED loc
    /\ UNCHANGED <<gateVars, telemetryStore, returned, lockVars, calls, keyVars, paramVars>>

(* ------------------------------ the system ----------------------------- *)
Next ==
    \/ \E t \in Threads, request \in WorkerRequests : CallShouldCollectTelemetry(t, request)
    \/ \E t \in Threads, telemetryKey \in StoredKeys :
          CallShouldCollectTelemetryKey(t, telemetryKey)
    \/ \E t \in Threads : ReturnToIdle(t)
    \/ WindowRollover
    \/ \E t \in Threads : GetTelemetryStoreForRead(t)
    \/ \E t \in Threads : ReadStorePointer(t)
    \/ \E t \in Threads : AcquireSharedLock(t)
    \/ \E t \in Threads : ReleaseSharedLock(t)
    \/ \E t \in Threads : ResetRequest(t)
    \/ \E t \in Threads : ResetAcquire(t)
    \/ \E t \in Threads : ResetSwap(t)
    \/ \E t \in Threads : ResetReturn(t)
    \/ \E t \in Threads, opDebug \in OpDebugs, isExec \in BOOLEAN :
          CollectTelemetry(t, opDebug, isExec)
    \/ \E t \in Threads : GetWithPartitionLock(t)
    \/ \E t \in Threads : PutNewMetrics(t)
    \/ \E t \in Threads : ReadExecCount(t)
    \/ \E t \in Threads : WriteMetrics(t)
    \/ \E t \in Threads : ReleasePartitionLock(t)
    \/ \E t \in Threads, memSize \in RequestedSizes : UpdateCacheSize(t, memSize)
    \/ \E t \in Threads : StoreReset(t)

Spec == Init /\ [][Next]_vars

(* ----------------- the key builder on drawn requests ------------------ *)
(* Two callers, each with a request drawn at the start: caller i applies   *)
(* the overload of its request's kind, then may pass what it got to the    *)
(* overload taking a key.                                                  *)
Callers == {1, 2}

NotRun == [done |-> FALSE, via |-> "none", out |-> NoOutcome]
Ran(via, out) == [done |-> TRUE, via |-> via, out |-> out]

InitKey ==
    /\ samplingRate \in 0..MaxRate
    /\ windowCount = 0
    /\ queryTelemetryStoreSize = 5
    /\ stores = <<TelemetryStore(capMemorySize(queryTelemetryStoreSize, 1, 25),
                                 kNumPartitions)>>
    /\ telemetryStore = 1
    /\ returned = {}
    /\ held = [t \in Threads |-> "none"]
    /\ xWaiting = {}
    /\ pc = [t \in Threads |-> "idle"]
    /\ loc = [t \in Threads |-> InitLoc]
    /\ calls = 0
    /\ \E r1 \in AllRequests :
          \E r2 \in {r \in AllRequests : /\ r.kind = r1.kind
                                         /\ r.ns = r1.ns
                                         /\ r.encryptionInformation = r1.encryptionInformation} :
             input = <<r1, r2>>
    /\ output = <<NotRun, NotRun>>

storeVars == <<paramVars, managerVars, lockVars, pc, loc, calls>>

ApplyAggregate(i) ==
    /\ ~output[i].done
    /\ input[i].kind = "aggregate"
    /\ LET out == shouldCollectTelemetryAggregate(input[i], samplingRate, windowCount)
       IN  /\ windowCount' = out.count
           /\ output' = [output EXCEPT ![i] = Ran("aggregate", out)]
    /\ UNCHANGED <<samplingRate, storeVars, input>>

ApplyFind(i) ==
    /\ ~output[i].done
    /\ input[i].kind = "find"
    /\ LET out == shouldCollectTelemetryFind(input[i], samplingRate, windowCount)
       IN  /\ windowCount' = out.count
           /\ output' = [output EXCEPT ![i] = Ran("find", out)]
    /\ UNCHANGED <<samplingRate, storeVars, input>>

ApplyKey(i) ==
    /\ output[i].done
    /\ output[i].via # "key"
    /\ LET telemetryKey == IF output[i].out.res.some THEN output[i].out.res.obj ELSE <<>>
           out == shouldCollectTelemetryKey(telemetryKey, samplingRate, windowCount)
       IN  /\ windowCount' = out.count
           /\ output' = [output EXCEPT ![i] = Ran("key", out)]
    /\ UNCHANGED <<samplingRate, storeVars, input>>

NextKey ==
    \/ \E i \in Callers : ApplyAggregate(i)
    \/ \E i \in Callers : ApplyFind(i)
    \/ \E i \in Callers : ApplyKey(i)
    \/ WindowRollover

SpecKey == InitKey /\ [][NextKey]_vars

(* ======================= properties of the key builder ================= *)
(* an element that marks an encrypted payload *)
isMarker(e) ==
    \/ e.type = "Object" /\ (e.name = "__safeContent__" \/ startsWith(e.name, "$_internalFle"))
    \/ e.type = "String" /\ e.str = "$__safeContent__"
    \/ e.type = "BinData" /\ e.subtype = "Encrypt"

RECURSIVE hasMarker(_)
hasMarker(obj) ==
    /\ obj # <<>>
    /\ \/ isMarker(Head(obj))
       \/ hasMarker(Head(obj).obj)
       \/ hasMarker(Tail(obj))

carriesMarker(request) ==
    \/ \E i \in 1..Len(request.pipeline) : hasMarker(request.pipeline[i])
    \/ hasMarker(request.fields)

byRequest(i) == output[i].done /\ output[i].via \in {"aggregate", "find"}

(* C3: a find or aggregate request that carries an encryption marker       *)
(* anywhere in its structure gets no key from shouldCollectTelemetry.      *)
C3_MarkerGetsNoKey ==
    \A i \in Callers :
        byRequest(i) /\ carriesMarker(input[i]) => ~output[i].out.res.some

(* the shape of a document: names and nesting, the literals left out *)
RECURSIVE shapeOf(_)
shapeOf(obj) ==
    IF obj = <<>> THEN <<>>
    ELSE LET e == Head(obj)
         IN  <<[name |-> e.name,
                kind |-> IF e.type \in {"Object", "Array"} THEN e.type ELSE "literal",
                sub |-> shapeOf(e.obj)]>> \o shapeOf(Tail(obj))

requestShape(request) ==
    [kind |-> request.kind,
     pipeline |-> [i \in 1..Len(request.pipeline) |-> shapeOf(request.pipeline[i])],
     fields |-> shapeOf(request.fields),
     readConcern |-> [some |-> request.readConcern.some,
                      shape |-> shapeOf(request.readConcern.obj)]]

(* C7: for two requests on the same namespace that both get a key, the     *)
(* keys are identical when the requests have the same shape (whatever      *)
(* their literals) and differ when the shapes differ.                      *)
C7_KeyDependsOnlyOnShape ==
    \A i, j \in Callers :
        /\ byRequest(i) /\ byRequest(j)
        /\ output[i].out.res.some /\ output[j].out.res.some
        /\ input[i].ns = input[j].ns
        /\ input[i].client = input[j].client
        => (requestShape(input[i]) = requestShape(input[j])
            <=> output[i].out.res.obj = output[j].out.res.obj)

(* C10: a find or aggregate request with encryption information, or on an  *)
(* FLE2 state collection, gets nothing, at any sampling rate and with any  *)
(* content.                                                                *)
C10_EncryptedRequestGetsNothing ==
    \A i \in Callers :
        /\ byRequest(i)
        /\ input[i].encryptionInformation \/ isFLE2StateCollection(input[i].ns)
        => ~output[i].out.res.some

C10_Witness ==
    /\ samplingRate > 0
    /\ byRequest(1) /\ byRequest(2)
    /\ input[1].kind = "find" /\ input[1].encryptionInformation /\ input[1].ns = UserNs
    /\ ~carriesMarker(input[1])
    /\ ~output[1].out.res.some
    /\ output[1].out.count < samplingRate

(* ===================== properties of the store manager ================= *)
StoreIds == 1..Len(stores)

exclusion ==
    \A t, u \in Threads : t # u => ~(held[t] = "X" /\ held[u] # "none")

(* C1: the live store pointer is replaced only by resetTelemetryStore      *)
(* while it has the exclusive hold and nobody has a shared hold; an        *)
(* exclusive hold never coexists with another hold.                        *)
C1_SwapOnlyUnderExclusiveHold ==
    [][ /\ exclusion
        /\ exclusion'
        /\ telemetryStore' # telemetryStore =>
              \E t \in Threads :
                 /\ pc[t] = "rs_swap" /\ pc'[t] = "rs_ret"
                 /\ held[t] = "X"
                 /\ \A u \in Threads \ {t} : held[u] = "none" ]_vars

C1_Witness ==
    \E t, u \in Threads :
        /\ pc[t] = "rs_ret" /\ held[t] = "X" /\ telemetryStore # loc[t].ret
        /\ pc[u] \in {"gs_start", "gs_ptr"}

gotStore(t) == held[t] = "S" /\ pc[t] \notin {"gs_start", "gs_ptr", "gs_lock"}

(* C2: the store a reader got from getTelemetryStore together with its     *)
(* shared guard is the live store, never one a reset has swapped out and   *)
(* handed back.                                                            *)
C2_GuardedPointerIsLive ==
    \A t \in Threads :
        gotStore(t) => loc[t].store = telemetryStore /\ loc[t].store \notin returned

allEntries(s) ==
    UNION { { stores[s].parts[p].entries[i] : i \in 1..Len(stores[s].parts[p].entries) } :
            p \in 1..stores[s].numPartitions }

(* C4: while the sampling rate is 0 every shouldCollectTelemetry call      *)
(* returns nothing without consulting the rate limiter, the window counter *)
(* stays untouched and no store ever holds an entry.                       *)
C4_RateZeroCollectsNothing ==
    samplingRate = 0 =>
        /\ windowCount = 0
        /\ \A t \in Threads :
              pc[t] = "sct_done" => ~loc[t].out.res.some /\ ~loc[t].out.consulted
        /\ \A t \in Threads : loc[t].op # "collect"
        /\ \A s \in StoreIds : allEntries(s) = {}

C4_Witness ==
    /\ samplingRate = 0
    /\ Len(stores) = 2
    /\ \A t \in Threads : pc[t] = "sct_done"

quiet(s, p) == stores[s].parts[p].lock = NoThread

(* C5: once the calls on a partition have completed, the execCount of      *)
(* every entry equals the number of isExec calls completed on it, and a    *)
(* key has one entry.                                                      *)
C5_NoLostUpdate ==
    \A s \in StoreIds :
        \A p \in 1..stores[s].numPartitions :
            quiet(s, p) =>
                LET entries == stores[s].parts[p].entries
                IN  /\ \A i \in 1..Len(entries) :
                          entries[i].metrics.execCount = entries[i].history.execCalls
                    /\ \A i, j \in 1..Len(entries) :
                          entries[i].key = entries[j].key => i = j

C5_Witness ==
    /\ Len(stores) = 1
    /\ \E p \in 1..stores[1].numPartitions :
          /\ quiet(1, p)
          /\ \E i \in 1..Len(stores[1].parts[p].entries) :
                /\ stores[1].parts[p].entries[i].metrics.execCount = 2
                /\ stores[1].parts[p].entries[i].history.execCalls = 2

uniformly(m, n, val) == m.sum = n * val /\ m.min = val /\ m.max = val

(* C6: the same statistics recorded N times with isExec=true under one key *)
(* give execCount = N, every sum N times the value, min = max = the value. *)
C6_UniformRecording ==
    \A s \in StoreIds :
        \A p \in 1..stores[s].numPartitions :
            quiet(s, p) =>
                \A e \in allEntries(s) :
                    e.history.uniform /\ e.history.calls >= 1 =>
                        LET n == e.history.calls
                            od == e.history.first
                        IN  /\ e.metrics.execCount = n
                            /\ uniformly(e.metrics.queryOptMicros, n, od.planningTime)
                            /\ uniformly(e.metrics.queryExecMicros, n, od.executionTime)
                            /\ uniformly(e.metrics.docsReturned, n, od.nreturned)
                            /\ uniformly(e.metrics.docsScanned, n, value_or(od.docsExamined, 0))
                            /\ uniformly(e.metrics.keysScanned, n, value_or(od.keysExamined, 0))

C6_Witness ==
    \E s \in StoreIds :
        /\ \A p \in 1..stores[s].numPartitions : quiet(s, p)
        /\ \E e \in allEntries(s) :
              e.history.uniform /\ e.history.calls = 2 /\ e.history.first.docsExamined = 3

emptyStore(store) ==
    \A p \in 1..store.numPartitions :
        store.parts[p].entries = <<>> /\ store.parts[p].lock = NoThread

(* C8: the swap of resetTelemetryStore, made under the exclusive hold,     *)
(* installs a fresh empty store with the size and partition count of the   *)
(* one it replaces and returns the replaced store with its entries; when   *)
(* the call returns the new store is the live one, the only one.           *)
C8_ResetInstallsFreshStore ==
    [][ \A t \in Threads :
          /\ pc[t] = "rs_swap" /\ pc'[t] = "rs_ret" =>
                /\ held[t] = "X"
                /\ telemetryStore' \notin StoreIds
                /\ telemetryStore' \in 1..Len(stores')
                /\ stores'[telemetryStore'].size = stores[telemetryStore].size
                /\ stores'[telemetryStore'].numPartitions = stores[telemetryStore].numPartitions
                /\ DOMAIN stores'[telemetryStore'].parts = 1..stores[telemetryStore].numPartitions
                /\ emptyStore(stores'[telemetryStore'])
                /\ loc'[t].ret = telemetryStore
                /\ stores'[telemetryStore] = stores[telemetryStore]
          /\ pc[t] = "rs_ret" /\ pc'[t] = "idle" =>
                /\ telemetryStore' = telemetryStore
                /\ telemetryStore' # loc[t].ret
                /\ returned' = returned \cup {loc[t].ret}
                /\ telemetryStore' \in 1..Len(stores') /\ telemetryStore' \notin returned'
                /\ stores' = stores ]_vars

C8_Witness ==
    \E t \in Threads :
        /\ pc[t] = "rs_ret"
        /\ allEntries(loc[t].ret) # {}
        /\ emptyStore(stores[telemetryStore])
        /\ stores[telemetryStore].size = stores[loc[t].ret].size

resetStep ==
    \E t \in Threads :
        /\ pc'[t] # pc[t]
        /\ pc[t] \in {"rs_wait", "rs_swap", "rs_ret"} \/ pc'[t] = "rs_wait"

(* C9: no step of a reset changes the store a reader is holding, with or   *)
(* without the guard granted yet.                                          *)
C9_ResetLeavesHeldStoreIntact ==
    [][ resetStep =>
          \A r \in Threads :
              loc[r].store # NoStore => stores'[loc[r].store] = stores[loc[r].store] ]_vars

C9_Witness ==
    \E r, t \in Threads :
        /\ gotStore(r) /\ allEntries(loc[r].store) # {}
        /\ pc[r] \in {"ct_read", "ct_write"}
        /\ pc[t] = "rs_wait"

(* ==================== properties of the recording path ================= *)
entryAt(s, p, key) ==
    LET entries == stores[s].parts[p].entries
    IN  entries[indexOf(entries, key)]

(* the step of a collectTelemetry call that updates the metrics of its entry *)
recording(t) ==
    /\ pc[t] = "ct_write" /\ pc'[t] = "ct_relpart"
    /\ indexOf(stores[loc[t].store].parts[loc[t].part].entries, loc[t].key) # 0

metricsBefore(t) == entryAt(loc[t].store, loc[t].part, loc[t].key).metrics
metricsAfter(t) == entryAt(loc[t].store, loc[t].part, loc[t].key).metrics'

(* C11: a collectTelemetry call adds exactly 1 to the execCount of its     *)
(* entry when isExec is true and leaves it as it was when isExec is false; *)
(* on an entry that was not evicted or reset since it was created the      *)
(* execCount is the number of isExec calls made on it.                     *)
C11_ExecCountCountsExecutions ==
    [][ /\ \A t \in Threads :
              recording(t) =>
                  metricsAfter(t).execCount =
                      metricsBefore(t).execCount + (IF loc[t].isExec THEN 1 ELSE 0)
        /\ \A s \in 1..Len(stores') :
              \A p \in 1..stores'[s].numPartitions :
                  stores'[s].parts[p].lock = NoThread =>
                      \A i \in 1..Len(stores'[s].parts[p].entries) :
                          LET e == stores'[s].parts[p].entries[i]
                          IN  /\ e.metrics.execCount = e.history.execCalls
                              /\ e.metrics.execCount <= e.history.calls ]_vars

C11_Witness ==
    \E s \in StoreIds :
        \E e \in allEntries(s) :
            /\ e.history.calls = 2
            /\ e.history.execCalls = 1
            /\ e.metrics.execCount = 1
            /\ ~e.history.uniform

grown(m, n, val) ==
    /\ n.count = m.count + 1
    /\ n.sum = m.sum + val
    /\ n.min <= val /\ val <= n.max
    /\ m.count > 0 => n.min <= m.min /\ m.max <= n.max

recordedAlways(t) ==
    LET m == metricsBefore(t)
        n == metricsAfter(t)
        od == loc[t].opDebug
    IN  /\ grown(m.queryExecMicros, n.queryExecMicros, od.executionTime)
        /\ grown(m.docsReturned, n.docsReturned, od.nreturned)
        /\ grown(m.docsScanned, n.docsScanned, value_or(od.docsExamined, 0))
        /\ grown(m.keysScanned, n.keysScanned, value_or(od.keysExamined, 0))
        /\ n.lastExecutionMicros = od.executionTime

latestKept ==
    \A s \in 1..Len(stores') :
        \A p \in 1..stores'[s].numPartitions :
            stores'[s].parts[p].lock = NoThread =>
                \A i \in 1..Len(stores'[s].parts[p].entries) :
                    LET e == stores'[s].parts[p].entries[i]
                    IN  e.history.calls > 0 =>
                            e.metrics.lastExecutionMicros = e.history.last.executionTime

(* C12 as stated: every collectTelemetry call, with isExec true or false,  *)
(* updates the aggregate of planning latency, execution latency, documents *)
(* returned, documents scanned and index keys scanned with the call's      *)
(* value and sets lastExecutionMicros to the call's execution time.        *)
C12_EveryCallUpdatesEveryAggregate ==
    [][ /\ \A t \in Threads :
              recording(t) =>
                  /\ recordedAlways(t)
                  /\ grown(metricsBefore(t).queryOptMicros, metricsAfter(t).queryOptMicros,
                           loc[t].opDebug.planningTime)
        /\ latestKept ]_vars

(* C12 amended: every collectTelemetry call updates the aggregates of      *)
(* execution latency, documents returned, documents scanned and index keys *)
(* scanned and sets lastExecutionMicros to the call's execution time, the  *)
(* latest in partition-lock order; the aggregate of planning latency is    *)
(* updated by the calls with isExec true and left as it was by the others. *)
C12_PlanningLatencyOnlyOnExec ==
    [][ /\ \A t \in Threads :
              recording(t) =>
                  /\ recordedAlways(t)
                  /\ IF loc[t].isExec
                     THEN grown(metricsBefore(t).queryOptMicros, metricsAfter(t).queryOptMicros,
                                loc[t].opDebug.planningTime)
                     ELSE metricsAfter(t).queryOptMicros = metricsBefore(t).queryOptMicros
        /\ latestKept ]_vars

C12_Witness ==
    \E s \in StoreIds :
        \E e \in allEntries(s) :
            /\ e.history.calls = 2
            /\ e.history.execCalls = 0
            /\ e.history.first # e.history.last
            /\ e.metrics.queryOptMicros.count = 0
            /\ e.metrics.queryExecMicros.count = 2
            /\ e.metrics.lastExecutionMicros = e.history.last.executionTime

(* ======================== properties of the store ====================== *)
RECURSIVE memoryUsedUpTo(_, _)
memoryUsedUpTo(store, p) ==
    IF p = 0 THEN 0
    ELSE Len(store.parts[p].entries) * EntryCost + memoryUsedUpTo(store, p - 1)

memoryUsed(store) == memoryUsedUpTo(store, store.numPartitions)

resizing(s) == \E t \in Threads : pc[t] = "uc_reset" /\ loc[t].store = s

(* C13: whatever collectTelemetry, resetTelemetryStore and updateCacheSize *)
(* calls have run, in any interleaving, the memory used by the partitions  *)
(* of the live store adds up to at most the byte budget of that store.     *)
C13_LiveStoreWithinBudget ==
    ~resizing(telemetryStore) =>
        memoryUsed(stores[telemetryStore]) <= stores[telemetryStore].size

C13_Witness ==
    /\ Len(stores) = 2
    /\ ~resizing(telemetryStore)
    /\ partitionBudget(stores[telemetryStore]) > 0
    /\ \A p \in 1..stores[telemetryStore].numPartitions :
          Len(stores[telemetryStore].parts[p].entries) * EntryCost
              = partitionBudget(stores[telemetryStore])

collecting(t) ==
    /\ pc[t] \in {"ct_lookup", "ct_put", "ct_read", "ct_write", "ct_relpart"}
    /\ pc'[t] # pc[t]

(* C14: a collectTelemetry call changes the partition its key hashes to    *)
(* and no other: every other partition of the store, and every other       *)
(* store, has the entries and aggregates it had, also when the call's put  *)
(* evicts.                                                                 *)
C14_OnlyOwnPartitionChanges ==
    [][ \A t \in Threads :
          collecting(t) =>
              /\ Len(stores') = Len(stores)
              /\ \A s \in StoreIds :
                    /\ stores'[s].size = stores[s].size
                    /\ stores'[s].numPartitions = stores[s].numPartitions
                    /\ \A q \in 1..stores[s].numPartitions :
                          ~(s = loc[t].store /\ q = partitionOf(stores[s], loc[t].key)) =>
                              stores'[s].parts[q] = stores[s].parts[q] ]_vars

C14_Witness ==
    \E t \in Threads :
        /\ pc[t] = "ct_read"
        /\ loc[t].evicted
        /\ Len(stores[loc[t].store].parts[loc[t].part].entries) > 0
        /\ \E q \in 1..stores[loc[t].store].numPartitions :
              q # loc[t].part /\ stores[loc[t].store].parts[q].entries # <<>>

(* C15: when the entry collectTelemetry has just put is not there because  *)
(* an empty partition cannot hold one entry, the process is halted: no     *)
(* thread takes a step after the assertion has failed, and the call never  *)
(* goes on to update the metrics of a missing entry.                       *)
C15_MisfitHaltsProcess ==
    [][ /\ \A t \in Threads : ~loc[t].threw
        /\ \A t \in Threads :
              pc'[t] = "ct_write" =>
                  indexOf(stores'[loc'[t].store].parts[loc'[t].part].entries, loc'[t].key) # 0
      ]_vars

(* ====================== properties of the sampling gate ================ *)
admission(t) == pc[t] = "idle" /\ pc'[t] = "sct_done"

(* C16: with a rate R > 0 the calls granted in one window are never more   *)
(* than R, under any interleaving of the callers: a call is granted only   *)
(* while the window counter is below R and the grant adds exactly 1 to it, *)
(* a call that is not granted leaves the counter as it was.                *)
C16_GrantsWithinRate ==
    [][ /\ windowCount <= samplingRate /\ windowCount' <= samplingRate'
        /\ \A t \in Threads :
              admission(t) =>
                  /\ loc'[t].out.res.some =>
                        windowCount < samplingRate /\ windowCount' = windowCount + 1
                  /\ windowCount' # windowCount =>
                        /\ windowCount < samplingRate
                        /\ windowCount' = windowCount + 1
                        /\ loc'[t].out.consulted
                  /\ \A u \in Threads \ {t} : loc'[u] = loc[u] ]_vars

C16_Witness ==
    /\ samplingRate > 0
    /\ windowCount = samplingRate
    /\ \E t, u \in Threads :
          /\ pc[t] = "sct_done" /\ loc[t].out.res.some /\ loc[t].out.consulted
          /\ pc[u] = "sct_done" /\ ~loc[u].out.res.some /\ loc[u].out.consulted
          /\ loc[u].out.count = samplingRate

(* ===================== properties of reconfiguration =================== *)
(* C17: the byte budget and the partition count of a store instance stay   *)
(* as they were when the instance was created; a new size takes effect     *)
(* through a fresh store swapped in under the exclusive hold.              *)
C17_StoreBudgetFixedAtCreation ==
    [][ /\ \A s \in StoreIds :
              /\ stores'[s].size = stores[s].size
              /\ stores'[s].numPartitions = stores[s].numPartitions
        /\ \A t \in Threads :
              pc[t] = "uc_reset" /\ loc[t].idx = 1 /\ loc'[t].idx # loc[t].idx =>
                  /\ stores'[telemetryStore'].size = loc[t].size
                  /\ telemetryStore' \notin StoreIds ]_vars

(* C18: a shared hold requested after a resetTelemetryStore call asked for *)
(* the exclusive hold is granted only when no reset is waiting for or has  *)
(* the exclusive hold, and the reader it is granted to has the store the   *)
(* reset installed, not the one it swapped out.                            *)
C18_LaterReadersSeeNewStore ==
    [][ \A r \in Threads :
          held[r] = "none" /\ held'[r] = "S" =>
              /\ xWaiting = {}
              /\ \A u \in Threads : held[u] # "X"
              /\ loc'[r].store # NoStore => loc'[r].store = telemetryStore' ]_vars

budgetFor(requested) ==
    LET limits == {requested, 1 * GB, TotalSystemMemory \div 4}
    IN  CHOOSE b \in limits : \A c \in limits : b <= c

(* the step of reset(cappedSize) that sets the size *)
storeResetStep(t) ==
    pc[t] = "uc_reset" /\ loc[t].idx = 1 /\ (pc'[t] = "uc_rel" \/ loc'[t].idx # loc[t].idx)

(* C19: the byte budget of the store, at service start and after every     *)
(* updateCacheSize, is the least of the requested size, 1 GiB and 25% of   *)
(* the system memory; a request above a limit is capped and the store is   *)
(* created or resized all the same.                                        *)
C19_BudgetIsCappedRequest ==
    /\ stores[1].size = budgetFor(queryTelemetryStoreSize)
    /\ [][ \A t \in Threads :
              /\ pc[t] = "idle" /\ pc'[t] = "gs_start" /\ loc'[t].op = "update" =>
                    /\ loc'[t].memSize = queryTelemetryStoreSize'
                    /\ loc'[t].size = budgetFor(loc'[t].memSize)
              /\ storeResetStep(t) =>
                    /\ stores'[loc[t].store].size = budgetFor(loc[t].memSize)
                    /\ stores'[loc[t].store].size <= loc[t].memSize
                    /\ stores'[loc[t].store].size <= 1 * GB
                    /\ 4 * stores'[loc[t].store].size <= TotalSystemMemory ]_vars

C19_Witness ==
    \E t \in Threads :
        /\ pc[t] = "uc_rel"
        /\ loc[t].memSize = 5
        /\ stores[loc[t].store].size = 3
        /\ stores[loc[t].store].size < loc[t].memSize
        /\ Len(stores) = 1

(* ========================= properties of the locks ===================== *)
partitionLocksOf(t) ==
    { sp \in StoreIds \X (1..kNumPartitions) :
        sp[2] <= stores[sp[1]].numPartitions /\ stores[sp[1]].parts[sp[2]].lock = t }

(* the steps a thread inside a call can take *)
proceed(t) ==
    \/ ReturnToIdle(t)
    \/ ReadStorePointer(t)
    \/ AcquireSharedLock(t)
    \/ ReleaseSharedLock(t)
    \/ ResetAcquire(t)
    \/ ResetSwap(t)
    \/ ResetReturn(t)
    \/ GetWithPartitionLock(t)
    \/ PutNewMetrics(t)
    \/ ReadExecCount(t)
    \/ WriteMetrics(t)
    \/ ReleasePartitionLock(t)
    \/ StoreReset(t)

(* C20: no deadlock among collectTelemetry, getTelemetryStoreForRead,      *)
(* updateCacheSize and resetTelemetryStore calls: while a call is under    *)
(* way some thread inside a call can take a step; a thread has at most one *)
(* partition lock, has it only inside collectTelemetry between the lookup  *)
(* and the release and together with the shared hold, and has none while   *)
(* it waits for or has the store's exclusive hold.                         *)
C20_NoDeadlock ==
    /\ \A t \in Threads :
          /\ Cardinality(partitionLocksOf(t)) <= 1
          /\ partitionLocksOf(t) # {} =>
                /\ held[t] = "S"
                /\ pc[t] \in {"ct_put", "ct_read", "ct_write", "ct_relpart"}
                /\ partitionLocksOf(t) = {<<loc[t].store, loc[t].part>>}
          /\ held[t] = "X" \/ t \in xWaiting => partitionLocksOf(t) = {}
    /\ (\E t \in Threads : pc[t] # "idle") =>
          \E t \in Threads : pc[t] # "idle" /\ ENABLED proceed(t)

C20_Witness ==
    \E t, u \in Threads :
        /\ t # u
        /\ pc[t] = "ct_lookup" /\ held[t] = "S"
        /\ pc[u] = "ct_write" /\ held[u] = "S"
        /\ loc[u].store = loc[t].store
        /\ loc[u].part = partitionOf(stores[loc[t].store], loc[t].key)
        /\ ~ENABLED GetWithPartitionLock(t)
        /\ ENABLED proceed(u)

(* ----------------- the redaction guard on drawn elements --------------- *)
(* One element drawn at the start; the guard is called on it once.         *)
GuardNames == {"a", "b", "__safeContent__", "$_internalFleEq", "$_internalFle", "$_internal"}

GuardElements ==
    UNION { { ObjElem(n, <<>>), ArrElem(n, <<>>), IntElem(n, 1),
              StrElem(n, "abc"), StrElem(n, "$__safeContent__"), StrElem(n, "__safeContent__"),
              BinElem(n, "Encrypt", <<>>), BinElem(n, "Encrypt", <<0>>),
              BinElem(n, "Encrypt", <<0, kDeterministic>>),
              BinElem(n, "Encrypt", <<0, kRandom>>),
              BinElem(n, "General", <<0, kDeterministic>>) } : n \in GuardNames }

Raised(threw) == [done |-> TRUE, via |-> "guard", threw |-> threw]

InitGuard ==
    /\ samplingRate = 0
    /\ windowCount = 0
    /\ queryTelemetryStoreSize = 5
    /\ stores = <<TelemetryStore(capMemorySize(queryTelemetryStoreSize, 1, 25),
                                 kNumPartitions)>>
    /\ telemetryStore = 1
    /\ returned = {}
    /\ held = [t \in Threads |-> "none"]
    /\ xWaiting = {}
    /\ pc = [t \in Threads |-> "idle"]
    /\ loc = [t \in Threads |-> InitLoc]
    /\ calls = 0
    /\ \E e \in GuardElements : input = <<e>>
    /\ output = <<NotRun>>

ApplyGuard ==
    /\ ~output[1].done
    /\ output' = <<Raised(throwIfEncounteringFLEPayload(input[1]))>>
    /\ UNCHANGED <<gateVars, storeVars, input>>

NextGuard == ApplyGuard

SpecGuard == InitGuard /\ [][NextGuard]_vars

(* what counts as the marker of an encrypted payload *)
isPayloadMarker(e) ==
    \/ e.type = "Object" /\ (e.name = "__safeContent__" \/ startsWith(e.name, "$_internalFle"))
    \/ e.type = "String" /\ e.str = "$__safeContent__"
    \/ /\ e.type = "BinData" /\ e.subtype = "Encrypt"
       /\ (Len(e.bin) <= 1 \/ e.bin[2] = kDeterministic)

(* C23: throwIfEncounteringFLEPayload raises for an element exactly when   *)
(* the element is the marker of an encrypted payload: an object named      *)
(* __safeContent__ or $_internalFle..., the string $__safeContent__, or    *)
(* Encrypt binary data that is too short or of the refused type; for every *)
(* other element it raises nothing.                                        *)
C23_GuardRaisesExactlyOnMarkers ==
    output[1].done /\ output[1].via = "guard" =>
        (output[1].threw <=> isPayloadMarker(input[1]))

(* the step in which caller i gets the answer of the overload for requests *)
answered(i) == ~output[i].done /\ output'[i].done

(* the step in which caller i gets the answer of the overload for keys *)
answeredKey(i) == output[i].done /\ output[i].via # "key" /\ output'[i].via = "key"

(* C25: a request rejected for its encryption information, for its FLE2    *)
(* state collection or, by the overload for keys, for its empty key does   *)
(* not reach the rate limiter and leaves the window counter as it was; a   *)
(* request that passes these checks and the rate limiter and is then       *)
(* refused by redaction has taken one admission of the window.             *)
C25_EarlyRejectsConsumeNothing ==
    [][ \A i \in Callers :
          /\ answered(i) /\ (input[i].encryptionInformation
                              \/ isFLE2StateCollection(input[i].ns)) =>
                /\ ~output'[i].out.res.some
                /\ ~output'[i].out.consulted
                /\ windowCount' = windowCount
          /\ answeredKey(i) /\ ~output[i].out.res.some =>
                /\ ~output'[i].out.res.some
                /\ ~output'[i].out.consulted
                /\ windowCount' = windowCount
          /\ /\ answered(i)
             /\ ~input[i].encryptionInformation /\ ~isFLE2StateCollection(input[i].ns)
             /\ windowCount < samplingRate
             /\ ~output'[i].out.res.some
             => output'[i].out.consulted /\ windowCount' = windowCount + 1 ]_vars

C25_Witness ==
    /\ samplingRate > 0
    /\ windowCount = 1
    /\ output[1].done /\ output[1].via = "key"
    /\ ~output[1].out.res.some /\ ~output[1].out.consulted
    /\ output[2].done /\ output[2].via = "find"
    /\ ~input[2].encryptionInformation /\ ~isFLE2StateCollection(input[2].ns)
    /\ ~output[2].out.res.some /\ output[2].out.consulted /\ output[2].out.count = 1

(* ===================== properties of the store entries ================= *)
keysAt(store, p) == { store.parts[p].entries[i].key : i \in 1..Len(store.parts[p].entries) }

keysOf(store) == UNION { keysAt(store, p) : p \in 1..store.numPartitions }

(* the step of a collectTelemetry call that inserts the entry of its key *)
inserting(t) == pc[t] = "ct_put" /\ pc'[t] = "ct_read"

kept(m, n) == n.count >= m.count /\ n.sum >= m.sum

oneEntryPerKey(store) ==
    \A p \in 1..store.numPartitions :
        /\ \A i, j \in 1..Len(store.parts[p].entries) :
              store.parts[p].entries[i].key = store.parts[p].entries[j].key => i = j
        /\ \A key \in keysAt(store, p) : partitionOf(store, key) = p

(* One step of the store seen from its entries: an insertion happens on an *)
(* absent key and leaves a zero-valued entry, an update keeps the entries  *)
(* of the partition and what the updated one had accumulated, no key has   *)
(* two entries, and a key leaves a store only by an eviction in its        *)
(* partition or a size reset, and the live store also by the swap of       *)
(* resetTelemetryStore.                                                    *)
upsertStep ==
        /\ \A t \in Threads :
              LET s == loc[t].store
                  p == loc[t].part
              IN  /\ inserting(t) =>
                        /\ loc[t].key \notin keysAt(stores[s], p)
                        /\ loc[t].key \in keysAt(stores'[s], p)
                        /\ entryAt(s, p, loc[t].key)'.metrics = NewTelemetryMetrics
                  /\ recording(t) =>
                        /\ keysAt(stores'[s], p) = keysAt(stores[s], p)
                        /\ Len(stores'[s].parts[p].entries) = Len(stores[s].parts[p].entries)
                        /\ metricsAfter(t).execCount >= metricsBefore(t).execCount
                        /\ kept(metricsBefore(t).queryOptMicros, metricsAfter(t).queryOptMicros)
                        /\ kept(metricsBefore(t).queryExecMicros, metricsAfter(t).queryExecMicros)
                        /\ kept(metricsBefore(t).docsReturned, metricsAfter(t).docsReturned)
                        /\ kept(metricsBefore(t).docsScanned, metricsAfter(t).docsScanned)
                        /\ kept(metricsBefore(t).keysScanned, metricsAfter(t).keysScanned)
                        /\ metricsAfter(t).queryExecMicros.count
                              = metricsBefore(t).queryExecMicros.count + 1
                        /\ \A i \in 1..Len(stores[s].parts[p].entries) :
                              stores[s].parts[p].entries[i].key # loc[t].key =>
                                  stores'[s].parts[p].entries[i] = stores[s].parts[p].entries[i]
        /\ \A s \in 1..Len(stores') : oneEntryPerKey(stores'[s])
        /\ \A s \in StoreIds :
              \A key \in keysOf(stores[s]) \ keysOf(stores'[s]) :
                  \E t \in Threads :
                      /\ loc[t].store = s
                      /\ \/ pc[t] = "ct_put" /\ loc'[t].evicted
                            /\ partitionOf(stores[s], key) = loc[t].part
                         \/ pc[t] = "uc_reset" /\ partitionOf(stores[s], key) = loc[t].idx
        /\ \A key \in keysOf(stores[telemetryStore]) \ keysOf(stores'[telemetryStore']) :
              \/ telemetryStore' # telemetryStore /\ \E t \in Threads : pc[t] = "rs_swap"
              \/ \E t \in Threads :
                    loc[t].store = telemetryStore /\ pc[t] \in {"ct_put", "uc_reset"}

(* the put of a collectTelemetry call leaves the entry it inserted *)
putInserts(t) == (pc[t] = "ct_put" /\ pc'[t] # "ct_put") => inserting(t)

(* the entries behave as above wherever the put leaves its entry *)
C22_UpsertWhereEntryFits == [][upsertStep]_vars

(* C22: collectTelemetry on a key its partition has updates that entry and *)
(* keeps what the entry had accumulated; on a key the partition does not   *)
(* have it inserts one entry with zero-valued metrics and then updates     *)
(* that entry.  A store has at most one entry per key, and an entry leaves *)
(* a store only by eviction, size reset or whole-store replacement.        *)
C22_UpdateInPlaceOrInsertOnce ==
    [][upsertStep /\ \A t \in Threads : putInserts(t)]_vars

C22_Witness ==
    \E t \in Threads :
        /\ pc[t] = "ct_relpart" /\ ~loc[t].threw
        /\ LET e == entryAt(loc[t].store, loc[t].part, loc[t].key)
           IN  /\ e.history.calls = 2
               /\ e.history.first # e.history.last
               /\ e.metrics.queryExecMicros.count = 2
               /\ e.metrics.queryExecMicros.sum
                     = e.history.first.executionTime + e.history.last.executionTime
        /\ Cardinality(keysOf(stores[loc[t].store])) = 2

(* ===================== recordings across resets ======================== *)
entriesOf(store) == [p \in 1..store.numPartitions |-> store.parts[p].entries]

(* C24: no recording is applied to a discarded store: a store that         *)
(* resetTelemetryStore has returned to its caller is not changed by any    *)
(* step of a collectTelemetry call, so every recording lands in the live   *)
(* store or in a store a reset has yet to return.                          *)
C24_ReturnedStoresUntouched ==
    [][ \A t \in Threads :
          collecting(t) /\ loc[t].store \in returned =>
              entriesOf(stores'[loc[t].store]) = entriesOf(stores[loc[t].store]) ]_vars

(* ===================== progress under fair scheduling ================== *)
(* The calls that take the instance lock, on a server that samples and has *)
(* a store with room: every thread inside a call is scheduled again, and   *)
(* the lock grants a hold that stays grantable.                            *)
LiveRequests ==
    { Request("find", UserNs, FALSE, <<>>, <<ObjElem("filter", <<IntElem("a", 1)>>)>>,
              NoneObj, NoClientMetadata) }

LiveOpDebugs ==
    { [planningTime |-> 1, nreturned |-> 2, docsExamined |-> 3, keysExamined |-> NoValue,
       executionTime |-> 2] }

InitLive ==
    /\ samplingRate = MaxRate
    /\ windowCount = 0
    /\ queryTelemetryStoreSize = 5
    /\ stores = <<TelemetryStore(capMemorySize(queryTelemetryStoreSize, 1, 25),
                                 kNumPartitions)>>
    /\ telemetryStore = 1
    /\ returned = {}
    /\ held = [t \in Threads |-> "none"]
    /\ xWaiting = {}
    /\ pc = [t \in Threads |-> "idle"]
    /\ loc = [t \in Threads |-> InitLoc]
    /\ calls = 0
    /\ input = <<>>
    /\ output = <<>>

NextLive ==
    \/ \E t \in Threads, request \in LiveRequests : CallShouldCollectTelemetry(t, request)
    \/ \E t \in Threads : ReturnToIdle(t)
    \/ WindowRollover
    \/ \E t \in Threads : GetTelemetryStoreForRead(t)
    \/ \E t \in Threads : ReadStorePointer(t)
    \/ \E t \in Threads : AcquireSharedLock(t)
    \/ \E t \in Threads : ReleaseSharedLock(t)
    \/ \E t \in Threads : ResetRequest(t)
    \/ \E t \in Threads : ResetAcquire(t)
    \/ \E t \in Threads : ResetSwap(t)
    \/ \E t \in Threads : ResetReturn(t)
    \/ \E t \in Threads, opDebug \in LiveOpDebugs : CollectTelemetry(t, opDebug, TRUE)
    \/ \E t \in Threads : GetWithPartitionLock(t)
    \/ \E t \in Threads : PutNewMetrics(t)
    \/ \E t \in Threads : ReadExecCount(t)
    \/ \E t \in Threads : WriteMetrics(t)
    \/ \E t \in Threads : ReleasePartitionLock(t)

Fairness == \A t \in Threads : WF_vars(proceed(t))

SpecLive == InitLive /\ [][NextLive]_vars /\ Fairness

blockedReader(t) == pc[t] \in {"gs_start", "gs_ptr"} /\ ~ENABLED AcquireSharedLock(t)

resetInProgress == xWaiting # {} \/ \E u \in Threads : held[u] = "X"

====
